---- MODULE Spec2Model ----
(***************************************************************************)
(* PredictiveClickTracker: the synthetic dataset generator                 *)
(* (src/src/data_generator.py) and the click model (src/src/model.py).     *)
(*                                                                         *)
(* Spec      : one ClickPredictionModel object under any sequence of train *)
(*             and predict calls.                                          *)
(* SpecDraws : DataGenerator with every outcome numpy's generator can give *)
(*             each draw.                                                  *)
(* SpecSeed  : DataGenerator with numpy's global generator as a seeded     *)
(*             stream, Faker's own generator and the wall clock.           *)
(* SpecSession : the dashboard session of src/main.py: the first script    *)
(*             run and the 'Regenerate Data' button, at scaled-down sizes. *)
(***************************************************************************)
EXTENDS Integers, Sequences, FiniteSets, TLC

\* Largest number of rows of a table handed to train or predict.
MaxRows == 3

\* Largest n_samples a DataGenerator is constructed with.
MaxSamples == 2

\* Hours the wall clock may advance.
MaxClock == 1

\* n_samples of the session's first table (1000 in main.py, scaled down).
InitialSamples == 3

VARIABLES
    label_encoders,      \* self.label_encoders: column name -> classes_ of its LabelEncoder
    model,               \* self.model: the RandomForestClassifier's fitted state
    feature_importance,  \* self.feature_importance: <<>> is None
    op,                  \* the call the caller holds the result of: "none", "train" or "predict"
    df,                  \* the table the last call was given
    outcome,             \* "ok", or the exception the last call raised
    returned,            \* what the last call returned
    generator,           \* the DataGenerator object: <<>> before construction
    np_random,           \* the state of numpy's global generator
    now,                 \* datetime.now(), in hours since the epoch
    gen_op,              \* "none" or "generate_data": the call the caller holds the result of
    gen_outcome,         \* "ok", or the exception generate_data raised
    data,                \* <<>>, or <<the table generate_data returned>>
    first,               \* <<>>, or <<n_samples and table of the first generate_data that returned>>
    session_data,        \* st.session_state.data: <<>> while 'data' is not in session_state
    model_score,         \* st.session_state.model_score: <<>> while it is not set
    trained_on           \* <<>>, or <<the table of the last train call of the session that returned>>

model_vars == <<label_encoders, model, feature_importance, op, df, outcome, returned>>

gen_vars == <<generator, np_random, now, gen_op, gen_outcome, data, first>>

session_vars == <<session_data, model_score, trained_on>>

vars == <<label_encoders, model, feature_importance, op, df, outcome, returned,
          generator, np_random, now, gen_op, gen_outcome, data, first,
          session_data, model_score, trained_on>>

----------------------------------------------------------------------------
(* Values and tables *)

Range(s) == {s[i] : i \in 1..Len(s)}

\* Every categorical value in the order np.unique sorts strings.
Lexicographic ==
    <<"chrome", "desktop", "direct", "dress", "edge", "email", "firefox",
      "laptop", "mobile", "safari", "search", "social", "tablet">>

categorical_cols == <<"search_term", "device_type", "browser", "referrer">>

\* One Interaction Record; timestamp counts hours since the epoch.
Row(st, ref, c) ==
    [timestamp |-> 1000, time_on_screen |-> 120, exited_screen |-> 0,
     search_count |-> 2, search_term |-> st, device_type |-> "desktop",
     browser |-> "chrome", referrer |-> ref, clicked |-> c]

\* The rows the calls' tables are built from: both labels, and a second value
\* in the first and in the last categorical column.
SampleRows ==
    {Row("laptop", "direct", 0), Row("laptop", "direct", 1),
     Row("dress", "direct", 0), Row("laptop", "email", 1)}

Tables == UNION {[1..n -> SampleRows] : n \in 0..MaxRows}

----------------------------------------------------------------------------
(* Exceptions *)

Ok == "ok"
UnseenLabels == "ValueError: y contains previously unseen labels"
EmptySplit == "ValueError: the resulting train set will be empty"
NotFitted == "NotFittedError: this RandomForestClassifier instance is not fitted yet"
NoSamples == "ValueError: Found array with 0 sample(s)"
NoPositiveColumn == "IndexError: index 1 is out of bounds for axis 1 with size 1"

Nothing == [kind |-> "none", score |-> 0, proba |-> <<>>]
Score(s) == [kind |-> "score", score |-> s, proba |-> <<>>]
Proba(p) == [kind |-> "proba", score |-> 0, proba |-> p]

\* Positive-class probabilities a fitted forest may give a row, in percent.
ProbLevels == {0, 100}

----------------------------------------------------------------------------
(* sklearn's LabelEncoder *)

\* LabelEncoder.fit: classes_ is the sorted distinct values of the column.
LabelEncoderFit(column) ==
    SelectSeq(Lexicographic, LAMBDA v : v \in Range(column))

CodeOf(classes_, v) == (CHOOSE i \in 1..Len(classes_) : classes_[i] = v) - 1

\* A transform that gives an unseen value the code 0 instead of raising.
LabelEncoderTransformDefault(classes_, column) ==
    [raised |-> FALSE,
     codes |-> [k \in 1..Len(column) |->
                  IF column[k] \in Range(classes_) THEN CodeOf(classes_, column[k]) ELSE 0]]

\* LabelEncoder.transform: the index of each value in classes_; raises on a
\* value that is not in classes_.
LabelEncoderTransform(classes_, column) ==
    IF \E k \in 1..Len(column) : column[k] \notin Range(classes_)
    THEN [raised |-> TRUE, codes |-> <<>>]
    ELSE [raised |-> FALSE,
          codes |-> [k \in 1..Len(column) |-> CodeOf(classes_, column[k])]]

Column(X, col) == [k \in 1..Len(X) |-> X[k][col]]

SetColumn(X, col, codes) == [k \in 1..Len(X) |-> [X[k] EXCEPT ![col] = codes[k]]]

Put(enc, col, classes_) ==
    [c \in DOMAIN enc \cup {col} |-> IF c = col THEN classes_ ELSE enc[c]]

----------------------------------------------------------------------------
(* ClickPredictionModel.prepare_features *)

\* A loop that fits a new encoder on every call.
RECURSIVE EncodeFromRefit(_, _, _)
EncodeFromRefit(enc, X, i) ==
    IF i > Len(categorical_cols)
    THEN [enc |-> enc, X |-> X, raised |-> Ok]
    ELSE LET col == categorical_cols[i]
             classes_ == LabelEncoderFit(Column(X, col))
             t == LabelEncoderTransform(classes_, Column(X, col))
         IN  EncodeFromRefit(Put(enc, col, classes_), SetColumn(X, col, t.codes), i + 1)

\* The loop over categorical_cols from column i on: a column with no encoder
\* gets one fit on this table; a column with one is transformed by it.
RECURSIVE EncodeFrom(_, _, _)
EncodeFrom(enc, X, i) ==
    IF i > Len(categorical_cols)
    THEN [enc |-> enc, X |-> X, raised |-> Ok]
    ELSE LET col == categorical_cols[i]
         IN  IF col \notin DOMAIN enc
             THEN LET classes_ == LabelEncoderFit(Column(X, col))
                      t == LabelEncoderTransform(classes_, Column(X, col))
                  IN  EncodeFrom(Put(enc, col, classes_), SetColumn(X, col, t.codes), i + 1)
             ELSE LET t == LabelEncoderTransform(enc[col], Column(X, col))
                  IN  IF t.raised
                      THEN [enc |-> enc, X |-> <<>>, raised |-> UnseenLabels]
                      ELSE EncodeFrom(enc, SetColumn(X, col, t.codes), i + 1)

Select(r) ==
    [time_on_screen |-> r.time_on_screen, exited_screen |-> r.exited_screen,
     search_count |-> r.search_count, hour |-> r.timestamp % 24,
     day_of_week |-> ((r.timestamp \div 24) + 3) % 7,
     search_term |-> r.search_term, device_type |-> r.device_type,
     browser |-> r.browser, referrer |-> r.referrer]

\* prepare_features(df) on a model whose encoders are enc: the encoders after
\* it, and the feature table or the exception. Every table has a datetime
\* timestamp column.
prepare_features(enc, table) ==
    LET e == EncodeFrom(enc, table, 1)
    IN  IF e.raised # Ok THEN e
        ELSE [enc |-> e.enc, X |-> [k \in 1..Len(table) |-> Select(e.X[k])],
              raised |-> Ok]

----------------------------------------------------------------------------
(* ClickPredictionModel *)

Unfitted == [fitted |-> FALSE, classes_ |-> {}, X |-> <<>>, y |-> <<>>]

\* RandomForestClassifier(random_state=42).fit(X, y)
Forest(X, y) == [fitted |-> TRUE, classes_ |-> Range(y), X |-> X, y |-> y]

\* train_test_split(test_size=0.2): ceil(0.2 n) rows are held out.
NTest(n) == (n + 4) \div 5

Pick(s, idx) == SelectSeq([k \in 1..Len(s) |-> <<k, s[k]>>], LAMBDA p : p[1] \in idx)

Take(s, idx) == LET p == Pick(s, idx) IN [k \in 1..Len(p) |-> p[k][2]]

Accuracy(pred, y) ==
    (100 * Cardinality({k \in 1..Len(y) : pred[k] = y[k]})) \div Len(y)

InitModel ==
    /\ label_encoders = <<>>
    /\ model = Unfitted
    /\ feature_importance = <<>>
    /\ op = "none"
    /\ df = <<>>
    /\ outcome = Ok
    /\ returned = Nothing

Raise(enc, e) ==
    /\ label_encoders' = enc
    /\ outcome' = e
    /\ returned' = Nothing
    /\ UNCHANGED <<model, feature_importance>>

train(table) ==
    LET prep == prepare_features(label_encoders, table)
        n == Len(table)
        y == Column(table, "clicked")
    IN  /\ op = "none"
        /\ op' = "train"
        /\ df' = table
        /\ IF prep.raised # Ok THEN Raise(prep.enc, prep.raised)
           ELSE IF n = 0 \/ n - NTest(n) = 0 THEN Raise(prep.enc, EmptySplit)
           ELSE \E test \in SUBSET (1..n) :
                  /\ Cardinality(test) = NTest(n)
                  /\ LET X_train == Take(prep.X, (1..n) \ test)
                         y_train == Take(y, (1..n) \ test)
                         y_test == Take(y, test)
                         fit == Forest(X_train, y_train)
                     IN  /\ label_encoders' = prep.enc
                         /\ model' = fit
                         /\ feature_importance' = <<fit>>
                         /\ \E pred \in [1..Len(y_test) -> fit.classes_] :
                              returned' = Score(Accuracy(pred, y_test))
                         /\ outcome' = Ok

predict(table) ==
    LET prep == prepare_features(label_encoders, table)
        n == Len(table)
    IN  /\ op = "none"
        /\ op' = "predict"
        /\ df' = table
        /\ IF prep.raised # Ok THEN Raise(prep.enc, prep.raised)
           ELSE IF ~model.fitted THEN Raise(prep.enc, NotFitted)
           ELSE IF n = 0 THEN Raise(prep.enc, NoSamples)
           ELSE IF Cardinality(model.classes_) < 2 THEN Raise(prep.enc, NoPositiveColumn)
           ELSE /\ label_encoders' = prep.enc
                /\ \E proba \in [Range(prep.X) -> ProbLevels] :
                     returned' = Proba([k \in 1..n |-> proba[prep.X[k]]])
                /\ outcome' = Ok
                /\ UNCHANGED <<model, feature_importance>>

\* The caller is done with the last call's table, result and exception.
Discard ==
    /\ op # "none"
    /\ op' = "none"
    /\ df' = <<>>
    /\ outcome' = Ok
    /\ returned' = Nothing
    /\ UNCHANGED <<label_encoders, model, feature_importance>>

----------------------------------------------------------------------------
(* DataGenerator *)

seed == 42
base_prob == 300
ThirtyDays == 720
StartHour == 1000

Min(a, b) == IF a < b THEN a ELSE b
Max(a, b) == IF a > b THEN a ELSE b

search_terms == <<"laptop", "dress">>
device_types == <<"desktop", "mobile", "tablet">>
browsers == <<"chrome", "firefox", "safari", "edge">>
referrers == <<"direct", "search", "social", "email">>

\* Probabilities are in thousandths, time_on_screen in seconds.
device_effect(dev) == CASE dev = "desktop" -> 100 [] dev = "mobile" -> -50 [] OTHER -> 0

browser_effect(br) == CASE br = "chrome" -> 50 [] br = "edge" -> -50 [] OTHER -> 0

click_prob(dev, br, ex, ts) ==
    IF ex # 0 THEN 0
    ELSE base_prob + device_effect(dev) + browser_effect(br) + Min(200, ts)

\* The looser formula: a flat -0.1 on exit.
click_prob_loose(dev, br, ex, ts) ==
    base_prob + device_effect(dev) + browser_effect(br) + Min(200, ts)
      - (IF ex # 0 THEN 100 ELSE 0)

clip(p) == Max(0, Min(1000, p))

\* np.random.binomial(n=1, p) from a uniform draw u in percent: never 1 when
\* p is 0, always 1 when p is 1.
binomial(u, p) == IF u * 10 < p THEN 1 ELSE 0

\* pd.DataFrame(data): row i takes element i of every column.
DataFrame(cols, clicked, n) ==
    [i \in 1..n |->
       [timestamp |-> cols.timestamp[i], time_on_screen |-> cols.time_on_screen[i],
        exited_screen |-> cols.exited_screen[i], search_count |-> cols.search_count[i],
        search_term |-> cols.search_term[i], device_type |-> cols.device_type[i],
        browser |-> cols.browser[i], referrer |-> cols.referrer[i],
        clicked |-> clicked[i]]]

\* df.loc[df['exited_screen'] == 1, 'clicked'] = 0
EnforceExit(table) ==
    [i \in 1..Len(table) |->
       IF table[i].exited_screen = 1 THEN [table[i] EXCEPT !.clicked = 0] ELSE table[i]]

\* The loose variant of the labelling: the flat adjustment and no final pass.
LabelledLoose(cols, n) ==
    DataFrame(cols,
              [i \in 1..n |->
                 binomial(cols.u[i],
                          clip(click_prob_loose(cols.device_type[i], cols.browser[i],
                                                cols.exited_screen[i], cols.time_on_screen[i])))],
              n)

\* The click probabilities, the Bernoulli draws (cols.u are their uniforms)
\* and the final pass.
Labelled(cols, n) ==
    EnforceExit(
      DataFrame(cols,
                [i \in 1..n |->
                   binomial(cols.u[i],
                            clip(click_prob(cols.device_type[i], cols.browser[i],
                                            cols.exited_screen[i], cols.time_on_screen[i])))],
                n))

NegativeDimensions == "ValueError: negative dimensions are not allowed"

InitSession ==
    /\ session_data = <<>>
    /\ model_score = <<>>
    /\ trained_on = <<>>

InitGenerator ==
    /\ generator = <<>>
    /\ now = StartHour
    /\ gen_op = "none"
    /\ gen_outcome = Ok
    /\ data = <<>>
    /\ first = <<>>

\* DataGenerator(n_samples=n)
DataGenerator(n) ==
    /\ gen_op = "none"
    /\ generator' = <<[n_samples |-> n]>>
    /\ UNCHANGED <<np_random, now, gen_op, gen_outcome, data, first>>

\* The caller is done with the table or the exception of generate_data.
DiscardData ==
    /\ gen_op # "none"
    /\ gen_op' = "none"
    /\ gen_outcome' = Ok
    /\ data' = <<>>
    /\ UNCHANGED <<generator, np_random, now, first>>

SampleSizes == -1..MaxSamples

----------------------------------------------------------------------------
(* generate_data with every outcome of every draw (SpecDraws) *)

\* What the draws of lines 37-46 can give for n rows. The columns the click
\* formula does not read take one value each.
Outcomes(n) ==
    [timestamp : [1..n -> {now}],
     time_on_screen : [1..n -> {50, 300}],
     exited_screen : [1..n -> {0, 1}],
     search_count : [1..n -> {2}],
     search_term : [1..n -> {"laptop"}],
     device_type : [1..n -> Range(device_types)],
     browser : [1..n -> Range(browsers)],
     referrer : [1..n -> {"direct"}],
     u : [1..n -> {10, 60}]]

generate_data_draws ==
    LET n == generator[1].n_samples
    IN  /\ gen_op = "none"
        /\ generator # <<>>
        /\ gen_op' = "generate_data"
        /\ IF n < 0
           THEN gen_outcome' = NegativeDimensions /\ data' = <<>>
           ELSE \E cols \in Outcomes(n) :
                  gen_outcome' = Ok /\ data' = <<Labelled(cols, n)>>
        /\ UNCHANGED <<generator, np_random, now, first>>

InitDraws == InitModel /\ InitGenerator /\ InitSession /\ np_random = 0

NextDraws ==
    \/ \E n \in SampleSizes : DataGenerator(n) /\ UNCHANGED model_vars /\ UNCHANGED session_vars
    \/ generate_data_draws /\ UNCHANGED model_vars /\ UNCHANGED session_vars
    \/ DiscardData /\ UNCHANGED model_vars /\ UNCHANGED session_vars

SpecDraws == InitDraws /\ [][NextDraws]_vars

----------------------------------------------------------------------------
(* generate_data on a seeded stream (SpecSeed) *)

\* numpy's generator, stood in for by a linear congruential one whose state
\* is also its output, a uniform draw in percent.
Advance(s) == (38 * s + 11) % 101

RECURSIVE After(_, _)
After(s, k) == IF k = 0 THEN s ELSE After(Advance(s), k - 1)

\* A generate_data that does not seed: the draws go on from the global state.
np_random_unseeded(s, x) == s

\* np.random.seed(x): the state no longer depends on what it was.
np_random_seed(s, x) == x % 101

\* np.random.choice(values, p=...): cum are the cumulated weights in percent.
choice(values, cum, u) ==
    values[CHOOSE i \in 1..Len(values) :
             /\ u < cum[i] \/ i = Len(values)
             /\ \A j \in 1..(i - 1) : u >= cum[j]]

\* np.random.choice(values): uniform.
choice_uniform(values, u) == values[(u * Len(values)) \div 101 + 1]

\* np.random.exponential(scale=300), to one value per quartile or so.
exponential(u) == CASE u < 30 -> 50 [] u < 50 -> 150 [] u < 80 -> 300 [] OTHER -> 700

\* np.random.poisson(lam=2)
poisson(u) == CASE u < 14 -> 0 [] u < 41 -> 1 [] u < 68 -> 2 [] u < 86 -> 3 [] OTHER -> 4

\* fake.date_time_between(start, end): Faker draws from its own generator,
\* which nothing seeds; the ends of the window stand for the window.
date_time_between(start_date, end_date) == {start_date, end_date}

\* The columns of lines 36-46 read off the stream that starts in state s:
\* column c (from 0) draws its n values after those of the columns before it;
\* the Bernoulli draws of line 69 come last.
Sampled(s, n, timestamps) ==
    LET draw(c, i) == After(s, c * n + i)
    IN  [timestamp |-> timestamps,
         time_on_screen |-> [i \in 1..n |-> exponential(draw(0, i))],
         exited_screen |-> [i \in 1..n |-> choice(<<0, 1>>, <<70, 100>>, draw(1, i))],
         search_count |-> [i \in 1..n |-> poisson(draw(2, i))],
         search_term |-> [i \in 1..n |-> choice_uniform(search_terms, draw(3, i))],
         device_type |-> [i \in 1..n |-> choice(device_types, <<60, 90, 100>>, draw(4, i))],
         browser |-> [i \in 1..n |-> choice(browsers, <<50, 70, 90, 100>>, draw(5, i))],
         referrer |-> [i \in 1..n |-> choice(referrers, <<40, 70, 90, 100>>, draw(6, i))],
         u |-> [i \in 1..n |-> draw(7, i)]]

generate_data ==
    LET n == generator[1].n_samples
        s == np_random_seed(np_random, seed)
        end_date == now
        start_date == end_date - ThirtyDays
    IN  /\ gen_op = "none"
        /\ generator # <<>>
        /\ gen_op' = "generate_data"
        /\ IF n < 0
           THEN /\ gen_outcome' = NegativeDimensions
                /\ data' = <<>>
                /\ np_random' = s
                /\ first' = first
           ELSE \E timestamps \in [1..n -> date_time_between(start_date, end_date)] :
                  LET table == Labelled(Sampled(s, n, timestamps), n)
                  IN  /\ gen_outcome' = Ok
                      /\ data' = <<table>>
                      /\ np_random' = After(s, 8 * n)
                      /\ first' = IF first = <<>>
                                  THEN <<[n_samples |-> n, table |-> table]>>
                                  ELSE first
        /\ UNCHANGED <<generator, now>>

\* The wall clock advances.
Tick ==
    /\ now < StartHour + MaxClock
    /\ now' = now + 1
    /\ UNCHANGED <<generator, np_random, gen_op, gen_outcome, data, first>>

InitSeed == InitModel /\ InitGenerator /\ InitSession /\ np_random \in 0..100

NextSeed ==
    \/ \E n \in SampleSizes : DataGenerator(n) /\ UNCHANGED model_vars /\ UNCHANGED session_vars
    \/ generate_data /\ UNCHANGED model_vars /\ UNCHANGED session_vars
    \/ DiscardData /\ UNCHANGED model_vars /\ UNCHANGED session_vars
    \/ Tick /\ UNCHANGED model_vars /\ UNCHANGED session_vars

SpecSeed == InitSeed /\ [][NextSeed]_vars


Init == InitModel /\ InitGenerator /\ InitSession /\ np_random = 0

Next ==
    \/ \E table \in Tables : train(table) /\ UNCHANGED gen_vars /\ UNCHANGED session_vars
    \/ \E table \in Tables : predict(table) /\ UNCHANGED gen_vars /\ UNCHANGED session_vars
    \/ Discard /\ UNCHANGED gen_vars /\ UNCHANGED session_vars

Spec == Init /\ [][Next]_vars

----------------------------------------------------------------------------
(* The dashboard session of main.py (SpecSession) *)

\* The slider's sample sizes (100 to 2000 in main.py, scaled down).
SliderSizes == 2..(MaxSamples + 1)

\* data_gen = DataGenerator(n_samples=n)
\* st.session_state.data = data_gen.generate_data()
\* st.session_state.model_score = st.session_state.model.train(st.session_state.data)
\* An exception of train ends the script run: data is stored by then, the
\* score is not.
GenerateAndTrain(n) ==
    \E timestamps \in [1..n -> date_time_between(now - ThirtyDays, now)] :
      LET s == np_random_seed(np_random, seed)
          table == Labelled(Sampled(s, n, timestamps), n)
      IN  /\ generator' = <<[n_samples |-> n]>>
          /\ np_random' = After(s, 8 * n)
          /\ session_data' = <<table>>
          /\ train(table)
          /\ model_score' = IF outcome' = Ok THEN <<returned'.score>> ELSE model_score
          /\ trained_on' = IF outcome' = Ok THEN <<table>> ELSE trained_on
          /\ UNCHANGED <<now, gen_op, gen_outcome, data, first>>

\* The first script run: 'data' is not in st.session_state.
InitialiseSession ==
    /\ session_data = <<>>
    /\ GenerateAndTrain(InitialSamples)

\* A script run with the 'Regenerate Data' button pressed.
RegenerateData(sample_size) ==
    /\ session_data # <<>>
    /\ GenerateAndTrain(sample_size)

InitSessionSpec == InitModel /\ InitGenerator /\ InitSession /\ np_random \in 0..100

NextSession ==
    \/ InitialiseSession
    \/ \E sample_size \in SliderSizes : RegenerateData(sample_size)
    \/ Discard /\ UNCHANGED gen_vars /\ UNCHANGED session_vars
    \/ Tick /\ UNCHANGED model_vars /\ UNCHANGED session_vars

SpecSession == InitSessionSpec /\ [][NextSession]_vars

----------------------------------------------------------------------------
(* Properties *)

\* Some column that has an encoder in enc holds a value outside its classes_.
HasUnseen(enc, table) ==
    \E col \in DOMAIN enc : \E k \in 1..Len(table) : table[k][col] \notin Range(enc[col])

Labels(table) == {table[k].clicked : k \in 1..Len(table)}

Generated == gen_op = "generate_data" /\ gen_outcome = Ok /\ data # <<>>

\* C1: in every table generate_data returns, every row with exited_screen 1
\* has clicked 0, whatever the row's Bernoulli draw was.
C1_ExitedNeverClicked ==
    Generated =>
      \A i \in 1..Len(data[1]) : data[1][i].exited_screen = 1 => data[1][i].clicked = 0

\* generate_data has returned a table of two or more rows, all of them exited.
C1_Witness ==
    /\ Generated
    /\ Len(data[1]) >= 2
    /\ \A i \in 1..Len(data[1]) : data[1][i].exited_screen = 1

\* C2: predict on a model that no train call has fitted raises the
\* not-fitted error and returns nothing, whatever calls failed before it.
C2_PredictUntrainedNotFitted ==
    (op = "predict" /\ ~model.fitted) => (outcome = NotFitted /\ returned = Nothing)

\* C3: a train or predict call whose table holds, in a column whose encoder is
\* fit, a value outside that encoder's classes_ raises the unseen-labels error:
\* it returns nothing and no encoder changes.
C3_UnseenRaises ==
    [][(op' \in {"train", "predict"} /\ HasUnseen(label_encoders, df'))
         => (outcome' = UnseenLabels /\ returned' = Nothing
             /\ label_encoders' = label_encoders)]_vars

\* predict on a fitted model raised the unseen-labels error for a referrer,
\* the last column, every search_term of the table being known.
C3_Witness ==
    /\ op = "predict"
    /\ model.fitted
    /\ outcome = UnseenLabels
    /\ \A k \in 1..Len(df) : df[k].search_term \in Range(label_encoders["search_term"])
    /\ \E k \in 1..Len(df) : df[k].referrer \notin Range(label_encoders["referrer"])

\* C4: a train or predict call that raises leaves the encoders, the forest and
\* the feature-importance table as they were.
C4_FailureLeavesState ==
    [][(op' \in {"train", "predict"} /\ outcome' # Ok)
         => UNCHANGED <<label_encoders, model, feature_importance>>]_vars

\* C5: train on an empty table, on a table with one label class, or with a
\* training split of one label class, raises and returns no score.
C5_DegenerateRejected ==
    (/\ op = "train"
     /\ \/ df = <<>>
        \/ Cardinality(Labels(df)) < 2
        \/ outcome = Ok /\ Cardinality(Range(model.y)) < 2)
      => (outcome # Ok /\ returned.kind # "score")

\* C6: generate_data on a generator constructed with n_samples <= 0 raises and
\* returns no table.
C6_NonPositiveRejected ==
    (gen_op = "generate_data" /\ generator[1].n_samples <= 0)
      => (gen_outcome # Ok /\ data = <<>>)

\* This call and the first call that returned had the same positive n_samples.
SameSizeAsFirst ==
    /\ Generated
    /\ first # <<>>
    /\ generator[1].n_samples > 0
    /\ first[1].n_samples = generator[1].n_samples

WithoutTimestamp(table) == [i \in 1..Len(table) |-> [table[i] EXCEPT !.timestamp = 0]]

C8_FitOnlyInTrain ==
    [][(DOMAIN label_encoders' # DOMAIN label_encoders) => op' = "train"]_vars

\* C9: predict on a fitted model, with a table (here one of at least one row)
\* whose categorical values are all in the encoders' classes_, returns one
\* probability in [0, 1] per row.
C9_PredictReturnsPerRow ==
    (op = "predict" /\ model.fitted /\ df # <<>> /\ ~HasUnseen(label_encoders, df))
      => /\ outcome = Ok
         /\ returned.kind = "proba"
         /\ Len(returned.proba) = Len(df)
         /\ \A k \in 1..Len(returned.proba) : returned.proba[k] \in 0..100

\* The feature rows of table under the encoders enc.
EncodedBy(enc, table) ==
    [k \in 1..Len(table) |->
       [Select(table[k]) EXCEPT
          !.search_term = CodeOf(enc["search_term"], @),
          !.device_type = CodeOf(enc["device_type"], @),
          !.browser = CodeOf(enc["browser"], @),
          !.referrer = CodeOf(enc["referrer"], @)]]

\* C10: an encoder, once fit, keeps its classes_ through every later call; a
\* train that succeeds on a model whose encoders are fit replaces the forest
\* and the feature-importance table by ones fit on rows encoded by those
\* encoders; distinct values of a column have distinct codes.
C10_EncodersFrozen ==
    /\ [][\A col \in DOMAIN label_encoders :
            col \in DOMAIN label_encoders' /\ label_encoders'[col] = label_encoders[col]]_vars
    /\ [][(op' = "train" /\ outcome' = Ok /\ label_encoders # <<>>)
            => /\ \E idx \in SUBSET (1..Len(df')) :
                    /\ model'.X = Take(EncodedBy(label_encoders, df'), idx)
                    /\ model'.y = Take(Column(df', "clicked"), idx)
               /\ model'.fitted
               /\ feature_importance' = <<model'>>]_vars
    /\ [](\A col \in DOMAIN label_encoders :
            \A v, w \in Range(label_encoders[col]) :
              CodeOf(label_encoders[col], v) = CodeOf(label_encoders[col], w) => v = w)

\* A train succeeded on a table that lacks a value of the encoders' classes_:
\* the encoders were fit by an earlier call.
C10_Witness ==
    /\ op = "train"
    /\ outcome = Ok
    /\ \E col \in DOMAIN label_encoders :
         \E v \in Range(label_encoders[col]) : \A k \in 1..Len(df) : df[k][col] # v

\* The stored score and the model's importance table come from a train on
\* the stored table, which fitted the forest on rows of it.
TrainedOnStoredData ==
    /\ model_score # <<>>
    /\ trained_on = session_data
    /\ feature_importance = <<model>>
    /\ \E idx \in SUBSET (1..Len(session_data[1])) :
         /\ model.X = Take(EncodedBy(label_encoders, session_data[1]), idx)
         /\ model.y = Take(Column(session_data[1], "clicked"), idx)

====
